---- MODULE Spec2Model ----
(***************************************************************************)
(* Message composition and delivery pipeline of the chat client.           *)
(*                                                                         *)
(*   ChatInput (components/chat/ChatInput.js): tracked attachments, their  *)
(*     blob handles, the draft text and the submit handler.                *)
(*   useMessageHandling (hooks part of services/s3Service.js, lines        *)
(*     309-659): handleMessageSubmit, handleLoadMore, removeFilePreview.   *)
(*   FileService / S3Service: the two file validators and the upload.      *)
(*                                                                         *)
(* ChatInput is driven by the hook through the props that carry the hook's *)
(* names (message, setMessage, showEmojiPicker, showMentionList, ...) and  *)
(* onSubmit = handleMessageSubmit, onMessageChange = handleMessageChange.  *)
(* The props disabled / uploading / onFileSelect keep the defaults of      *)
(* ChatInput.js lines 21-24.                                               *)
(*                                                                         *)
(* React commits the state updates of one handler (or one promise          *)
(* continuation) before the next event is handled, so each action below    *)
(* is the handler together with the re-render and the effect cleanup the   *)
(* re-render triggers.                                                     *)
(*                                                                         *)
(* Text is a sequence of one-character strings.                            *)
(***************************************************************************)
EXTENDS Integers, Sequences, FiniteSets, TLC

VARIABLES
  \* ChatInput state
  files,            \* useState([]) : sequence of attachment ids (filePreview objects)
  ciUploadError,    \* ChatInput's own uploadError
  mounted,          \* ChatInput is mounted
  \* blob handle table (URL.createObjectURL / URL.revokeObjectURL)
  created,          \* created[a] = the File of attachment a; its handle is blob a
  revokeCalls,      \* revokeCalls[a] = URL.revokeObjectURL calls on blob a so far:
                    \* "none", "once" or "twice-or-more"
  \* useMessageHandling state
  message, showEmojiPicker, showMentionList, mentionFilter, mentionIndex,
  filePreview, uploading, uploadProgress, uploadError, loadingMessages,
  \* collaborators
  socket,           \* socketRef.current: "connected", "disconnected" or "null"
  currentUser,      \* the hook's currentUser argument
  roomId,           \* router.query.room
  \* send attempts and what left the client
  sends,            \* one record per handleMessageSubmit call
  emitted,          \* chatMessage events emitted on the socket, in order
  removed,          \* attachments removed while their upload was in flight
  \* history fetch
  tickets,          \* one record per promise opened by handleLoadMore
  listeners,        \* socket.once registrations still installed
  timers,           \* tickets whose 10 s timer is armed
  net,              \* server responses in flight
  \* service calls
  validated,        \* FileService.validateFile calls: [file, verdict], in order
  resolved,         \* FileService._buildFilePath calls: [fileInfo, roomId, path]
  s3Uploads,        \* S3Service.uploadMultipleFiles: per file, bytes loaded and state
  onProgress,       \* the value last passed to the caller's onProgress callback
                    \* of uploadMultipleFiles (-1: not called yet)
  urlCalls,         \* FileService URL-building calls: arguments and returned URL
  \* the textarea
  caret,            \* messageInputRef.current.selectionStart
  \* the render the page's callbacks come from
  loadingSeen,      \* loadingMessages as closed over by the current handleLoadMore
  \* the profile image of ProfileImageUpload and of the profile page
  profile           \* displayed images, flags, blob handles, awaited upload

vars == << files, ciUploadError, mounted, created, revokeCalls,
           message, showEmojiPicker, showMentionList, mentionFilter, mentionIndex,
           filePreview, uploading, uploadProgress, uploadError, loadingMessages,
           socket, currentUser, roomId, sends, emitted, removed,
           tickets, listeners, timers, net,
           validated, resolved, s3Uploads, onProgress, urlCalls, caret,
           loadingSeen, profile >>

ciVars   == << files, ciUploadError, mounted, created, revokeCalls >>
mentionVars == << showMentionList, mentionFilter, mentionIndex >>
uploadVars == << filePreview, uploading, uploadProgress, uploadError >>
envVars  == << socket, currentUser, roomId >>
sendVars == << sends, emitted, removed >>
histVars == << tickets, listeners, timers, net, loadingMessages, loadingSeen >>
svcVars  == << validated, resolved, s3Uploads, onProgress, urlCalls, profile >>

\* ------------------------------------------------------------------ bounds
MaxFiles   == 2     \* attachments created in one run
MaxSends   == 2     \* handleMessageSubmit calls in one run
MaxTickets == 2     \* history fetches opened in one run
MaxUploadFiles == 3 \* files given to one uploadMultipleFiles call
MaxValidations == 2 \* validateFile calls in one run
MaxResolutions == 2 \* _buildFilePath calls in one run
MaxUrlCalls == 1    \* URL-building calls in one run
MaxEdits == 3       \* draft length below which the toolbar and the picker are used
MaxProfileCalls == 4   \* profile image selections in one run
MaxCaret == 2       \* caret positions the user clicks on
ProgressTotal == 4  \* progress.total of one upload, in transferred parts

\* --------------------------------------------------------------- constants
Null   == "null"
NoUser == "no-user"
NoRoom == "no-room"
User   == "user"
Room   == "room-42"
OriginalImage == 0      \* currentImageUrl / currentUser.profileImage, as displayed
UploadedImage == -1     \* uploadResult.url, as displayed; n > 0: blob handle n
NoPreview == 0      \* filePreview === null

Range(s) == { s[i] : i \in 1..Len(s) }

\* ------------------------------------------------------------- validators
MaxFileSize == 10 * 1024 * 1024

allowedImageTypes == {"image/jpeg", "image/jpg", "image/png", "image/gif", "image/webp"}
\* allowedVideoTypes without avi and mov
allowedVideoTypesNarrow == {"video/mp4", "video/webm"}

allowedVideoTypes == {"video/mp4", "video/webm", "video/avi", "video/mov"}
allowedAudioTypes == {"audio/mp3", "audio/wav", "audio/aac", "audio/ogg"}
allowedDocumentTypes == {"application/pdf", "application/msword",
  "application/vnd.openxmlformats-officedocument.wordprocessingml.document"}

S3allowedTypes == {"image/jpeg", "image/jpg", "image/png", "image/gif", "image/webp",
  "video/mp4", "video/webm", "audio/mp3", "audio/wav", "application/pdf"}

NoFile == [size |-> 0, type |-> "undefined"]

\* validateFile testing the type before the size
validateFileTypeFirst(file) ==
  IF file = NoFile THEN "no-file"
  ELSE IF file.type \notin (allowedImageTypes \cup allowedVideoTypes
                            \cup allowedAudioTypes \cup allowedDocumentTypes)
       THEN "unsupported"
  ELSE IF file.size > MaxFileSize THEN "too-large"
  ELSE "ok"

\* validateFile without the type check
validateFileAnyType(file) ==
  IF file = NoFile THEN "no-file"
  ELSE IF file.size > MaxFileSize THEN "too-large"
  ELSE "ok"

\* FileService.validateFile: "ok" or the reason of the Error it throws
validateFile(file) ==
  IF file = NoFile THEN "no-file"
  ELSE IF file.size > MaxFileSize THEN "too-large"
  ELSE IF file.type \notin (allowedImageTypes \cup allowedVideoTypes
                            \cup allowedAudioTypes \cup allowedDocumentTypes)
       THEN "unsupported"
  ELSE "ok"

\* S3Service.validateFile
S3validateFile(file) ==
  IF file.size > MaxFileSize THEN "too-large"
  ELSE IF file.type \notin S3allowedTypes THEN "unsupported"
  ELSE "ok"

\* -------------------------------------------------------------------- text
Whitespace == {" ", "\n"}
LowerChars == {"a", "c", "e", "g", "i", "k", "l", "m", "n", "o", "s", "t", "u",
               "w", "y", "z"}
UpperChars == {"A", "I", "K", "W"}
WordChars  == LowerChars \cup UpperChars \cup {"_"}   \* the \w characters of the alphabet
ToLower(c) == CASE c = "A" -> "a" [] c = "I" -> "i" [] c = "K" -> "k"
                [] c = "W" -> "w" [] OTHER -> c
toLowerCase(s) == [i \in 1..Len(s) |-> ToLower(s[i])]

RECURSIVE trimStart(_)
trimStart(s) == IF s # <<>> /\ Head(s) \in Whitespace THEN trimStart(Tail(s)) ELSE s
RECURSIVE trimEnd(_)
trimEnd(s) == IF s # <<>> /\ s[Len(s)] \in Whitespace
              THEN trimEnd(SubSeq(s, 1, Len(s) - 1)) ELSE s
\* trim that removes nothing
trimNothing(s) == s

trim(s) == trimEnd(trimStart(s))

\* String.prototype.lastIndexOf, 1-based; 0 when absent
lastIndexOf(s, c) ==
  LET I == { i \in 1..Len(s) : s[i] = c }
  IN IF I = {} THEN 0 ELSE CHOOSE i \in I : \A j \in I : j <= i

\* value.split('\n') ; lines[lines.length - 1]
currentLine(s) == SubSeq(s, lastIndexOf(s, "\n") + 1, Len(s))

\* useMessageHandling.handleMessageChange: last '@' of the line, no space after it
HookTrigger(value) ==
  LET line == currentLine(value)
      at   == lastIndexOf(line, "@")
      text == SubSeq(line, at + 1, Len(line))
  IN [active |-> at # 0 /\ \A i \in 1..Len(text) : text[i] # " ",
      filter |-> toLowerCase(text)]

\* ChatInput.handleInputChange: currentLine.match(/@(\w*)$/)
InputTrigger(value) ==
  LET line == currentLine(value)
      at   == lastIndexOf(line, "@")
      text == SubSeq(line, at + 1, Len(line))
  IN [active |-> at # 0 /\ \A i \in 1..Len(text) : text[i] \in WordChars,
      filter |-> text]

\* The textarea is controlled (value={message}): when a render gives it another
\* value than it holds, the browser puts the caret at the end of the new value.
caretAfter(old, new, c) == IF new = old THEN c ELSE Len(new)

\* String.prototype.includes
includes(s, sub) ==
  \E k \in 0..(Len(s) - Len(sub)) : SubSeq(s, k + 1, k + Len(sub)) = sub

\* the drafts a user types in the send pipeline
Drafts == { <<>>, <<" ">>, <<" ", "a">> }

\* ------------------------------------------------------------ blob handles
\* URL.revokeObjectURL(fileToRemove.url)
Revoke(rc, a) == [rc EXCEPT ![a] = IF @ = "none" THEN "once" ELSE "twice-or-more"]

\* the cleanup returned by the paste/click-outside effect: files.forEach(revoke)
RECURSIVE Cleanup(_, _)
Cleanup(fs, rc) ==
  IF fs = <<>> THEN rc ELSE Cleanup(Tail(fs), Revoke(rc, Head(fs)))

\* The effect lists [showEmojiPicker, messageInputRef, files, ...] as its
\* dependencies: React runs the cleanup of the previous render (which closes
\* over that render's files) whenever setFiles stored a new array or
\* showEmojiPicker changed, and on unmount.
EffectCleanup(isMounted, oldFiles, filesSet, oldEmoji, newEmoji, rc) ==
  IF isMounted /\ (filesSet \/ oldEmoji # newEmoji) THEN Cleanup(oldFiles, rc) ELSE rc

\* -------------------------------------------------------------------- Init
InitChat(sockets, users, rooms) ==
  /\ files = <<>> /\ ciUploadError = Null /\ mounted = TRUE
  /\ created = <<>> /\ revokeCalls = <<>>
  /\ message = <<>> /\ showEmojiPicker = FALSE /\ showMentionList = FALSE
  /\ mentionFilter = <<>> /\ mentionIndex = 0
  /\ filePreview = NoPreview /\ uploading = FALSE /\ uploadProgress = 0
  /\ uploadError = Null /\ loadingMessages = FALSE
  /\ socket \in sockets
  /\ currentUser \in users
  /\ roomId \in rooms
  /\ sends = <<>> /\ emitted = <<>> /\ removed = {}
  /\ tickets = <<>> /\ listeners = {} /\ timers = {} /\ net = {}
  /\ caret = 0
  /\ loadingSeen = FALSE

\* no service call made yet
InitServices ==
  /\ validated = <<>> /\ resolved = <<>>
  /\ s3Uploads = <<>> /\ onProgress = -1
  /\ urlCalls = <<>>
  /\ profile = [previewUrl |-> OriginalImage, uploading |-> FALSE, error |-> FALSE,
                profileImage |-> OriginalImage, isImageUploading |-> FALSE,
                pageError |-> FALSE, handles |-> <<>>, tempUrl |-> 0, calls |-> 0]

InitWith(sockets, users, rooms) ==
  InitChat(sockets, users, rooms) /\ InitServices

\* the chat page of a signed-in user in a room, transport connected
Init == InitWith({"connected"}, {User}, {Room})

\* ------------------------------------------------- ChatInput: attachments
\* handleFileValidationAndPreview(file): file input change, drop and paste
handleFileValidationAndPreview(file) ==
  /\ mounted
  /\ Len(created) < MaxFiles
  /\ IF file = NoFile
     THEN UNCHANGED << files, ciUploadError, created, revokeCalls >>
     ELSE IF validateFile(file) # "ok"
     THEN /\ ciUploadError' = validateFile(file)
          /\ UNCHANGED << files, created, revokeCalls >>
     ELSE LET a == Len(created) + 1 IN
          /\ created' = Append(created, file)           \* URL.createObjectURL(file)
          /\ files' = Append(files, a)                  \* setFiles(prev => [...prev, filePreview])
          /\ ciUploadError' = Null
          /\ revokeCalls' = EffectCleanup(TRUE, files, TRUE, showEmojiPicker,
                                          showEmojiPicker, Append(revokeCalls, "none"))
  /\ UNCHANGED << mounted, message, showEmojiPicker, mentionVars, uploadVars,
                  envVars, sendVars, histVars, svcVars, caret >>

\* handleFileRemove(fileToRemove), wired to FilePreview.onRemove
handleFileRemove(a) ==
  /\ mounted
  /\ a \in Range(files)
  /\ files' = SelectSeq(files, LAMBDA f : f # a)
  /\ revokeCalls' = EffectCleanup(TRUE, files, TRUE, showEmojiPicker, showEmojiPicker,
                                  Revoke(revokeCalls, a))
  /\ ciUploadError' = Null
  /\ UNCHANGED << mounted, created, message, showEmojiPicker, mentionVars, uploadVars,
                  envVars, sendVars, histVars, svcVars, caret >>

\* FilePreview.onRetry = () => setUploadError(null)
onRetry ==
  /\ mounted
  /\ Len(files) > 0
  /\ ciUploadError # Null
  /\ ciUploadError' = Null
  /\ UNCHANGED << files, mounted, created, revokeCalls, message, showEmojiPicker,
                  mentionVars, uploadVars, envVars, sendVars, histVars, svcVars, caret >>

\* toggleEmojiPicker: setShowEmojiPicker(prev => !prev)
toggleEmojiPicker ==
  /\ mounted
  /\ showEmojiPicker' = ~showEmojiPicker
  /\ revokeCalls' = EffectCleanup(TRUE, files, FALSE, showEmojiPicker, showEmojiPicker',
                                  revokeCalls)
  /\ UNCHANGED << files, ciUploadError, mounted, created, message, mentionVars,
                  uploadVars, envVars, sendVars, histVars, svcVars, caret >>

\* handleClickOutside: mousedown outside the picker while it is shown
handleClickOutside ==
  /\ mounted
  /\ showEmojiPicker
  /\ showEmojiPicker' = FALSE
  /\ revokeCalls' = EffectCleanup(TRUE, files, FALSE, showEmojiPicker, showEmojiPicker',
                                  revokeCalls)
  /\ UNCHANGED << files, ciUploadError, mounted, created, message, mentionVars,
                  uploadVars, envVars, sendVars, histVars, svcVars, caret >>

\* ChatInput is unmounted: the last effect's cleanup runs
Unmount ==
  /\ mounted
  /\ mounted' = FALSE
  /\ revokeCalls' = Cleanup(files, revokeCalls)
  /\ UNCHANGED << files, ciUploadError, created, message, showEmojiPicker, mentionVars,
                  uploadVars, envVars, sendVars, histVars, svcVars, caret >>

\* handleInputChange(e): setMessage, onMessageChange (= handleMessageChange),
\* then ChatInput's own mention detection, which writes last
handleInputChange(value) ==
  /\ mounted
  /\ value # message
  /\ message' = value
  /\ LET h == HookTrigger(value)
         c == InputTrigger(value)
     IN /\ showMentionList' = c.active
        /\ mentionFilter' = IF c.active THEN c.filter
                            ELSE IF h.active THEN h.filter ELSE mentionFilter
        /\ mentionIndex' = IF c.active \/ h.active THEN 0 ELSE mentionIndex
  /\ UNCHANGED << ciVars, showEmojiPicker, uploadVars, envVars, sendVars, histVars, svcVars >>
  /\ caret' = Len(value)

\* ------------------------------------------- useMessageHandling: sending
\* error.message of a failed upload, by the vocabulary the catch block tests
\* for: "session" = contains one of the session / auth / token words
\* (lines 545-547), "notfound" = line 555, "perm" = line 557
ErrorMessages == { {}, {"session"} }

\* upload progress percentages reported by httpUploadProgress
ProgressValues == {50}

\* CannotSend without the current-user test
CannotSendIgnoringUser(sock, user) == sock # "connected"

\* line 415: !socketRef.current?.connected || !currentUser
CannotSend(sock, user) == sock # "connected" \/ user = NoUser

\* lines 545-547
SessionVocabulary(err) == "session" \in err

\* lines 553-559
errorMessage(err) ==
  IF "notfound" \in err THEN "s3-processing-error"
  ELSE IF "perm" \in err THEN "permission-denied"
  ELSE "generic-send-error"

\* The catch block of handleMessageSubmit (lines 529-568) for an error whose
\* message has vocabulary err.  uploadResponse is a const of the block inside
\* try (line 436), so it is not in scope at line 533: for a file message the
\* test messageData.type === 'file' && uploadResponse?.url raises a
\* ReferenceError that leaves the catch block, and the async function rejects.
Catch(type, err) ==
  IF type = "file"
  THEN [outcome |-> "threw", toasts |-> <<>>, sessionCalls |-> 0,
        warned |-> FALSE, reset |-> FALSE]
  ELSE IF SessionVocabulary(err)
  THEN [outcome |-> "session-expired", toasts |-> <<>>, sessionCalls |-> 1,
        warned |-> FALSE, reset |-> FALSE]
  ELSE [outcome |-> "failed", toasts |-> << errorMessage(err) >>, sessionCalls |-> 0,
        warned |-> FALSE, reset |-> type = "file"]

\* AfterFileSent leaving the uploading flag set
AfterFileSentStillUploading ==
  [filePreview |-> NoPreview, message |-> <<>>, uploading |-> TRUE, uploadProgress |-> 0]

\* lines 508-511: setFilePreview(null); setMessage(''); setUploading(false);
\* setUploadProgress(0)
AfterFileSent ==
  [filePreview |-> NoPreview, message |-> <<>>, uploading |-> FALSE, uploadProgress |-> 0]

\* the record kept for one handleMessageSubmit(messageData) call
SendRec(md, outcome, toasts) ==
  [type |-> md.type, att |-> md.att, content |-> md.content,
   connected |-> socket = "connected", user |-> currentUser # NoUser,
   outcome |-> outcome, toasts |-> toasts, sessionCalls |-> 0,
   uploadStarted |-> FALSE, uploaded |-> FALSE, warned |-> FALSE, err |-> {}]

\* what fileService.uploadChatFile resolves with for attachment a
\* (fileService.js lines 258-282); url a stands for the Location of a's object
uploadResponse(a) ==
  [success |-> TRUE, url |-> a, isChatFile |-> TRUE]

\* ChatMessage without the flags of a client-side upload
ChatMessageWithoutFlags(sid, type, content, att) ==
  [sid |-> sid, room |-> roomId, type |-> type, content |-> content, att |-> att,
   connected |-> socket = "connected",
   url |-> IF type = "file" THEN uploadResponse(att).url ELSE 0,
   flags |-> {}]

\* socketRef.current.emit('chatMessage', {...}); url is fileData.url (0: no
\* fileData)
ChatMessage(sid, type, content, att) ==
  [sid |-> sid, room |-> roomId, type |-> type, content |-> content, att |-> att,
   connected |-> socket = "connected",
   url |-> IF type = "file" THEN uploadResponse(att).url ELSE 0,
   flags |-> IF type = "file"
             THEN {"isS3File", "s3Uploaded", "skipFileValidation", "alreadyUploaded"}
             ELSE {}]

\* handleMessageSubmit(messageData) up to its first await (or to its end):
\* everything except the draft text, which the caller sets
handleMessageSubmit(md) ==
  LET sid == Len(sends) + 1 IN
  IF CannotSend(socket, currentUser)
  THEN /\ sends' = Append(sends, SendRec(md, "not-connected", << "disconnected" >>))
       /\ UNCHANGED << emitted, uploadVars, showEmojiPicker, showMentionList >>
  ELSE IF roomId = NoRoom
  THEN /\ sends' = Append(sends, SendRec(md, "no-room", << "no-room" >>))
       /\ UNCHANGED << emitted, uploadVars, showEmojiPicker, showMentionList >>
  ELSE IF md.type = "file"
  THEN /\ uploading' = TRUE
       /\ uploadError' = Null
       /\ uploadProgress' = 0
       /\ sends' = Append(sends, [SendRec(md, "pending", <<>>) EXCEPT
                                     !.uploadStarted = TRUE])
       /\ UNCHANGED << emitted, filePreview, showEmojiPicker, showMentionList >>
  ELSE IF trim(md.content) # <<>>
  THEN /\ emitted' = Append(emitted, ChatMessage(sid, "text", trim(md.content), 0))
       /\ sends' = Append(sends, SendRec(md, "sent", <<>>))
       /\ showEmojiPicker' = FALSE
       /\ showMentionList' = FALSE
       /\ UNCHANGED uploadVars
  ELSE /\ sends' = Append(sends, SendRec(md, "nothing", <<>>))
       /\ showEmojiPicker' = FALSE
       /\ showMentionList' = FALSE
       /\ UNCHANGED << emitted, uploadVars >>

\* filesAfterSubmit leaving the attachments in the draft
filesKeptAfterSubmit(fs) == fs

\* line 173, after onSubmit of a file message: setFiles([])
filesAfterSubmit(fs) == <<>>

\* ChatInput.handleSubmit(e): the send button (enabled for a non-empty draft,
\* line 520) and Enter outside the mention list (line 286)
handleSubmit ==
  /\ mounted
  /\ Len(sends) < MaxSends
  /\ Len(files) > 0 \/ trim(message) # <<>>
  /\ IF Len(files) > 0
     THEN /\ handleMessageSubmit([type |-> "file", content |-> trim(message),
                                  att |-> files[1]])
          /\ message' = <<>>
          /\ files' = filesAfterSubmit(files)
          /\ revokeCalls' = EffectCleanup(TRUE, files, TRUE, showEmojiPicker,
                                          showEmojiPicker', revokeCalls)
     ELSE /\ handleMessageSubmit([type |-> "text", content |-> trim(message),
                                  att |-> 0])
          /\ message' = <<>>
          /\ files' = files
          /\ revokeCalls' = EffectCleanup(TRUE, files, FALSE, showEmojiPicker,
                                          showEmojiPicker', revokeCalls)
  /\ UNCHANGED << ciUploadError, mounted, created, mentionFilter, mentionIndex,
                  envVars, removed, histVars, svcVars >>
  /\ caret' = caretAfter(message, message', caret)

\* handleMessageSubmit({type: 'text', content}) called by another caller with
\* content as it is; the text branch ends with setMessage('') (line 523)
handleMessageSubmitText(content) ==
  /\ Len(sends) < MaxSends
  /\ handleMessageSubmit([type |-> "text", content |-> content, att |-> 0])
  /\ message' = IF Len(emitted') > Len(emitted) THEN <<>> ELSE message
  /\ revokeCalls' = EffectCleanup(mounted, files, FALSE, showEmojiPicker,
                                  showEmojiPicker', revokeCalls)
  /\ UNCHANGED << files, ciUploadError, mounted, created, mentionFilter, mentionIndex,
                  envVars, removed, histVars, svcVars >>
  /\ caret' = caretAfter(message, message', caret)

PendingUpload(sid) ==
  /\ sid \in 1..Len(sends)
  /\ sends[sid].outcome = "pending"

\* onProgress passed to uploadChatFile: (progress) => setUploadProgress(progress)
UploadProgress(sid, p) ==
  /\ PendingUpload(sid)
  /\ S3validateFile(created[sends[sid].att]) = "ok"
  /\ uploadProgress # p
  /\ uploadProgress' = p
  /\ UNCHANGED << ciVars, message, showEmojiPicker, mentionVars, filePreview, uploading,
                  uploadError, envVars, sendVars, histVars, svcVars, caret >>

\* uploadChatFile resolves: the rest of the try block (lines 442-527)
UploadResolve(sid) ==
  /\ PendingUpload(sid)
  /\ S3validateFile(created[sends[sid].att]) = "ok"
  /\ IF socket = "null"
     THEN \* socketRef.current.emit raises a TypeError, whose message has none
          \* of the tested words
          LET c == Catch("file", {}) IN
          /\ sends' = [sends EXCEPT ![sid] = [@ EXCEPT !.outcome = c.outcome,
                          !.toasts = c.toasts, !.sessionCalls = c.sessionCalls,
                          !.warned = c.warned, !.uploaded = TRUE]]
          /\ uploadError' = IF c.reset THEN c.toasts[1] ELSE uploadError
          /\ uploading' = IF c.reset THEN FALSE ELSE uploading
          /\ uploadProgress' = IF c.reset THEN 0 ELSE uploadProgress
          /\ UNCHANGED << emitted, filePreview, message, showEmojiPicker,
                          showMentionList, revokeCalls >>
     ELSE /\ emitted' = Append(emitted, ChatMessage(sid, "file", sends[sid].content,
                                                    sends[sid].att))
          /\ filePreview' = AfterFileSent.filePreview
          /\ message' = AfterFileSent.message
          /\ uploading' = AfterFileSent.uploading
          /\ uploadProgress' = AfterFileSent.uploadProgress
          /\ sends' = [sends EXCEPT ![sid] = [@ EXCEPT !.outcome = "sent",
                          !.toasts = << "upload-success" >>, !.uploaded = TRUE]]
          /\ showEmojiPicker' = FALSE
          /\ showMentionList' = FALSE
          /\ revokeCalls' = EffectCleanup(mounted, files, FALSE, showEmojiPicker,
                                          showEmojiPicker', revokeCalls)
          /\ UNCHANGED uploadError
  /\ UNCHANGED << files, ciUploadError, mounted, created, mentionFilter, mentionIndex,
                  envVars, removed, histVars, svcVars >>
  /\ caret' = caretAfter(message, message', caret)

\* uploadChatFile rejects with an Error whose message has vocabulary err.  A
\* file that S3Service.validateFile refuses fails with its unsupported-type
\* message; otherwise the message is the storage collaborator's.
UploadReject(sid, err) ==
  /\ PendingUpload(sid)
  /\ S3validateFile(created[sends[sid].att]) # "ok" => err = {}
  /\ LET c == Catch("file", err) IN
     /\ sends' = [sends EXCEPT ![sid] = [@ EXCEPT !.outcome = c.outcome,
                     !.toasts = c.toasts, !.sessionCalls = c.sessionCalls,
                     !.warned = c.warned, !.err = err]]
     /\ uploadError' = IF c.reset THEN c.toasts[1] ELSE uploadError
     /\ uploading' = IF c.reset THEN FALSE ELSE uploading
     /\ uploadProgress' = IF c.reset THEN 0 ELSE uploadProgress
  /\ UNCHANGED << ciVars, message, showEmojiPicker, mentionVars, filePreview,
                  envVars, emitted, removed, histVars, svcVars, caret >>

\* removeFilePreview (lines 625-629)
removeFilePreview ==
  /\ filePreview # NoPreview \/ uploadError # Null \/ uploadProgress # 0
       \/ \E sid \in 1..Len(sends) : PendingUpload(sid)
  /\ filePreview' = NoPreview
  /\ uploadError' = Null
  /\ uploadProgress' = 0
  /\ removed' = removed \cup { sends[sid].att : sid \in { i \in 1..Len(sends) :
                                                          PendingUpload(i) } }
  /\ UNCHANGED << ciVars, message, showEmojiPicker, mentionVars, uploading,
                  envVars, sends, emitted, histVars, svcVars, caret >>

\* setFilePreview, exported by the hook (line 647), given a tracked attachment
setFilePreview(a) ==
  /\ a \in Range(files)
  /\ filePreview # a
  /\ filePreview' = a
  /\ UNCHANGED << ciVars, message, showEmojiPicker, mentionVars, uploading,
                  uploadProgress, uploadError, envVars, sendVars, histVars, svcVars, caret >>

\* the transport connects, disconnects, or the socket reference is cleared
SocketChange(s) ==
  /\ s \in {"connected", "disconnected", "null"}
  /\ s # socket
  /\ socket' = s
  /\ UNCHANGED << ciVars, message, showEmojiPicker, mentionVars, uploadVars,
                  currentUser, roomId, sendVars, histVars, svcVars, caret >>

\* -------------------------------------- useMessageHandling: history fetch
EventKinds == {"previousMessagesLoaded", "error"}

\* handleLoadMore (lines 360-412).  answer is what the server will eventually
\* send back for this fetchPreviousMessages request; it stays in flight until
\* the transport delivers it.
handleLoadMore(answer) ==
  /\ Len(tickets) < MaxTickets
  /\ socket = "connected"                      \* line 361
  /\ ~loadingSeen                              \* line 367, deps at line 412
  /\ LET t == Len(tickets) + 1 IN
     /\ loadingMessages' = TRUE
     /\ tickets' = Append(tickets, [outcome |-> "pending", by |-> 0])
     /\ timers' = timers \cup {t}              \* setTimeout(..., 10000)
     /\ net' = net \cup { [req |-> t, kind |-> answer] }
     /\ listeners' = listeners \cup { [ticket |-> t, ev |-> e] : e \in EventKinds }
  /\ UNCHANGED << ciVars, message, showEmojiPicker, mentionVars, uploadVars,
                  envVars, sendVars, svcVars, caret, loadingSeen >>

\* the 10 s timer of ticket t fires (lines 383-386)
Timeout(t) ==
  /\ t \in timers
  /\ timers' = timers \ {t}
  /\ loadingMessages' = FALSE
  /\ tickets' = [tickets EXCEPT ![t] =
                   IF @.outcome = "pending" THEN [@ EXCEPT !.outcome = "timed-out"]
                   ELSE @]
  /\ UNCHANGED << ciVars, message, showEmojiPicker, mentionVars, uploadVars,
                  envVars, sendVars, listeners, net, svcVars, caret, loadingSeen >>

\* The socket dispatches one event of the given kind, sent by the server for
\* request req (0: an error event not caused by a history fetch).  Every
\* once-listener of that kind runs and is removed (lines 393-403); resolve and
\* reject settle a promise only the first time.
Dispatch(kind, req) ==
  LET fired == { l \in listeners : l.ev = kind }
      hit   == { l.ticket : l \in fired }
  IN /\ listeners' = listeners \ fired
     /\ timers' = timers \ hit                                 \* clearTimeout
     /\ loadingMessages' = IF fired # {} THEN FALSE ELSE loadingMessages
     /\ tickets' = [t \in 1..Len(tickets) |->
                      IF t \in hit /\ tickets[t].outcome = "pending"
                      THEN [outcome |-> IF kind = "error" THEN "failed"
                                        ELSE "acknowledged",
                            by |-> req]
                      ELSE tickets[t]]

\* the transport delivers the server's answer r
Deliver(r) ==
  /\ r \in net
  /\ socket = "connected"
  /\ net' = net \ {r}
  /\ Dispatch(r.kind, r.req)
  /\ UNCHANGED << ciVars, message, showEmojiPicker, mentionVars, uploadVars,
                  envVars, sendVars, svcVars, caret, loadingSeen >>

\* The page re-renders after setLoadingMessages: useCallback gives a new
\* handleLoadMore, which closes over the new loadingMessages (deps, line 412)
Render ==
  /\ loadingSeen # loadingMessages
  /\ loadingSeen' = loadingMessages
  /\ UNCHANGED << ciVars, message, showEmojiPicker, mentionVars, uploadVars,
                  envVars, sendVars, svcVars, caret, tickets, listeners, timers, net,
                  loadingMessages >>

\* FileService.uploadFile up to the storage request: "ok" when the storage
\* upload is started, else the reason of the Error it throws.  It runs
\* fileService.validateFile, then s3Service.uploadFile, which runs its own
\* validateFile before building the request.
uploadFile(file) ==
  IF validateFile(file) # "ok" THEN validateFile(file)
  ELSE IF file = NoFile THEN "no-file"
  ELSE S3validateFile(file)

\* ---------------------------------------------- FileService: validation
\* one call of fileService.validateFile(file), its outcome recorded
validateFileCall(file) ==
  /\ Len(validated) < MaxValidations
  /\ validated' = Append(validated, [file |-> file, verdict |-> validateFile(file)])
  /\ UNCHANGED << ciVars, message, showEmojiPicker, mentionVars, uploadVars,
                  envVars, sendVars, histVars, resolved, s3Uploads, onProgress, urlCalls, caret, profile >>

\* -------------------------------------------------- FileService: paths
\* fileInfo is [kind, folder, filename, str]: kind "object" with the folder and
\* filename properties (<<>>: absent or ''), kind "string" with the string
\* str, kind "null" for anything else.  roomId <<>> is null (or '').
ObjectInfo(folder, filename) ==
  [kind |-> "object", folder |-> folder, filename |-> filename, str |-> <<>>]
StringInfo(str) ==
  [kind |-> "string", folder |-> <<>>, filename |-> <<>>, str |-> str]
NullInfo ==
  [kind |-> "null", folder |-> <<>>, filename |-> <<>>, str |-> <<>>]

\* the literal 'chat-files'
ChatFiles == << "c", "h", "a", "t", "-", "f", "i", "l", "e", "s" >>

\* `chat-files/${roomId}/${name}`
ChatFilePath(room, name) == ChatFiles \o << "/" >> \o room \o << "/" >> \o name

\* _buildFilePath testing the roomId of an object before its folder
buildFilePathRoomFirst(fileInfo, room) ==
  IF fileInfo.kind = "object" /\ fileInfo.filename # <<>> /\ room # <<>>
  THEN ChatFilePath(room, fileInfo.filename)
  ELSE IF fileInfo.kind = "object" /\ fileInfo.folder # <<>> /\ fileInfo.filename # <<>>
  THEN fileInfo.folder \o << "/" >> \o fileInfo.filename
  ELSE IF fileInfo.kind = "object" /\ fileInfo.filename # <<>>
  THEN fileInfo.filename
  ELSE IF fileInfo.kind = "string"
  THEN IF "/" \in Range(fileInfo.str) THEN fileInfo.str
       ELSE IF room # <<>> THEN ChatFilePath(room, fileInfo.str)
       ELSE fileInfo.str
  ELSE <<>>

\* FileService._buildFilePath(fileInfo, roomId = null)
_buildFilePath(fileInfo, room) ==
  IF fileInfo.kind = "object" /\ fileInfo.folder # <<>> /\ fileInfo.filename # <<>>
  THEN fileInfo.folder \o << "/" >> \o fileInfo.filename
  ELSE IF fileInfo.kind = "object" /\ fileInfo.filename # <<>> /\ room # <<>>
  THEN ChatFilePath(room, fileInfo.filename)
  ELSE IF fileInfo.kind = "object" /\ fileInfo.filename # <<>>
  THEN fileInfo.filename
  ELSE IF fileInfo.kind = "string"
  THEN IF "/" \in Range(fileInfo.str) THEN fileInfo.str
       ELSE IF room # <<>> THEN ChatFilePath(room, fileInfo.str)
       ELSE fileInfo.str
  ELSE <<>>

\* one call of fileService._buildFilePath(fileInfo, roomId), its result recorded
buildFilePathCall(fileInfo, room) ==
  /\ Len(resolved) < MaxResolutions
  /\ resolved' = Append(resolved, [fileInfo |-> fileInfo, roomId |-> room,
                                    path |-> _buildFilePath(fileInfo, room)])
  /\ UNCHANGED << ciVars, message, showEmojiPicker, mentionVars, uploadVars,
                  envVars, sendVars, histVars, validated, s3Uploads, onProgress, urlCalls, caret, profile >>

\* the path returned by call i is resolved again, with the same roomId
buildFilePathAgain(i) ==
  /\ i \in 1..Len(resolved)
  /\ buildFilePathCall(StringInfo(resolved[i].path), resolved[i].roomId)

\* --------------------------------------------------- FileService: URLs
\* A URL is a sequence of parts; <<>> is the empty string.  A session is what
\* authService.getCurrentUser() returns: token and sessionId, "" when absent
\* (no user at all: both absent).
NoSession == [token |-> "", sessionId |-> ""]

\* this.bucketUrl (lines 14-15)
bucketUrl == "https://bucket.s3.region.amazonaws.com"

\* the options objects of the URL builders, defaults applied
UrlOptions(download, includeAuth, forceDownload, preview) ==
  [download |-> download, includeAuth |-> includeAuth,
   forceDownload |-> forceDownload, preview |-> preview]

\* params.toString() of lines 85-97
AuthParams(user, options) ==
  << "?", "token=", user.token, "&", "sessionId=", user.sessionId >>
    \o (IF options.download \/ options.forceDownload
        THEN << "&", "download=true" >> ELSE <<>>)
    \o (IF options.forceDownload THEN << "&", "attachment=true" >> ELSE <<>>)

\* _buildAuthenticatedUrl that needs only the token
buildAuthenticatedUrlTokenOnly(basePath, options, user) ==
  << bucketUrl, "/" >> \o basePath
    \o (IF options.includeAuth /\ user.token # ""
        THEN AuthParams(user, options) ELSE <<>>)

\* FileService._buildAuthenticatedUrl(basePath, options), with the current user
_buildAuthenticatedUrl(basePath, options, user) ==
  << bucketUrl, "/" >> \o basePath
    \o (IF options.includeAuth /\ user.token # "" /\ user.sessionId # ""
        THEN AuthParams(user, options) ELSE <<>>)

\* getFileUrl that builds a URL for an empty path too
getFileUrlUnchecked(fileInfo, options, room, user) ==
  _buildAuthenticatedUrl(_buildFilePath(fileInfo, room), options, user)

\* FileService.getFileUrl(fileInfo, options, roomId)
getFileUrl(fileInfo, options, room, user) ==
  LET filePath == _buildFilePath(fileInfo, room)
  IN IF filePath = <<>> THEN <<>>
     ELSE _buildAuthenticatedUrl(filePath, options, user)

\* FileService.getDownloadUrl(fileInfo, roomId)
getDownloadUrl(fileInfo, room, user) ==
  getFileUrl(fileInfo, UrlOptions(TRUE, TRUE, TRUE, FALSE), room, user)

\* FileService.getPreviewUrl(fileInfo, roomId)
getPreviewUrl(fileInfo, room, user) ==
  getFileUrl(fileInfo, UrlOptions(FALSE, TRUE, FALSE, FALSE), room, user)

\* isImageUrl: the extensions looked for, and url.toLowerCase() on a part
imageExtensions == { ".jpg", ".jpeg", ".png", ".gif", ".webp" }
PartToLower(part) == IF part = ".PNG" THEN ".png" ELSE part

\* FileService.isImageUrl(url): imageExtensions.some(ext => urlLower.includes(ext))
isImageUrl(url) ==
  url # <<>> /\ \E k \in 1..Len(url) : PartToLower(url[k]) \in imageExtensions

\* S3Service.getResizedImageUrl(s3Url, {width: 150, height: 150, quality: 80});
\* cloudFront: NEXT_PUBLIC_CLOUDFRONT_DOMAIN is set
getResizedImageUrl(s3Url, cloudFront) ==
  IF cloudFront
  THEN << "https://cloudfront", "/w_150,h_150", "/" >> \o SubSeq(s3Url, 3, Len(s3Url))
  ELSE s3Url

\* FileService.getThumbnailUrl(fileInfo, options, roomId)
getThumbnailUrl(fileInfo, options, room, user, cloudFront) ==
  LET filePath == _buildFilePath(fileInfo, room)
      url == _buildAuthenticatedUrl(filePath,
               UrlOptions(FALSE, options.includeAuth, FALSE, FALSE), user)
  IN IF filePath = <<>> THEN <<>>
     ELSE IF ~isImageUrl(filePath) THEN url
     ELSE IF ~options.preview THEN getResizedImageUrl(url, cloudFront)
     ELSE url

\* one call of a URL builder, its arguments and result recorded
UrlCall(op, fileInfo, options, room, user, cloudFront) ==
  /\ Len(urlCalls) < MaxUrlCalls
  /\ urlCalls' = Append(urlCalls,
       [op |-> op, fileInfo |-> fileInfo, options |-> options, roomId |-> room,
        user |-> user, cloudFront |-> cloudFront,
        url |-> CASE op = "getFileUrl" -> getFileUrl(fileInfo, options, room, user)
                  [] op = "getDownloadUrl" -> getDownloadUrl(fileInfo, room, user)
                  [] op = "getPreviewUrl" -> getPreviewUrl(fileInfo, room, user)
                  [] op = "getThumbnailUrl" ->
                       getThumbnailUrl(fileInfo, options, room, user, cloudFront)])
  /\ UNCHANGED << ciVars, message, showEmojiPicker, mentionVars, uploadVars,
                  envVars, sendVars, histVars, validated, resolved, s3Uploads,
                  onProgress, caret, profile >>

\* ------------------------------------------------ S3Service: progress
\* Math.round(x) for x = num / den >= 0
Round(num, den) == (2 * num + den) \div (2 * den)

\* uploadWithProgress, line 80: Math.round((progress.loaded / progress.total) * 100)
percentage(loaded, total) == Round(loaded * 100, total)

\* uploadMultipleFiles, lines 110-111, index counted from 0:
\* Math.round(((index * 100) + fileProgress) / files.length)
totalProgress(index, fileProgress, n) == Round(index * 100 + fileProgress, n)

\* uploadMultipleFiles(files, folder, onProgress) with n files: files.map starts
\* every uploadFile at once (lines 106-114)
uploadMultipleFiles(n) ==
  /\ s3Uploads = <<>>
  /\ n \in 1..MaxUploadFiles
  /\ s3Uploads' = [i \in 1..n |-> [loaded |-> 0, state |-> "uploading"]]
  /\ UNCHANGED << ciVars, message, showEmojiPicker, mentionVars, uploadVars,
                  envVars, sendVars, histVars, validated, resolved, onProgress, urlCalls, caret, profile >>

\* upload.on('httpUploadProgress') of file i (lines 79-82) reporting loaded
\* parts, then the per-file callback of uploadMultipleFiles (lines 107-113)
httpUploadProgress(i, loaded) ==
  /\ i \in 1..Len(s3Uploads)
  /\ s3Uploads[i].state = "uploading"
  /\ loaded \in (s3Uploads[i].loaded + 1)..ProgressTotal
  /\ s3Uploads' = [s3Uploads EXCEPT ![i].loaded = loaded]
  /\ onProgress' = totalProgress(i - 1, percentage(loaded, ProgressTotal),
                                 Len(s3Uploads))
  /\ UNCHANGED << ciVars, message, showEmojiPicker, mentionVars, uploadVars,
                  envVars, sendVars, histVars, validated, resolved, urlCalls, caret, profile >>

\* the upload.send callback of file i without error (lines 84-90): resolve
uploadSend(i) ==
  /\ i \in 1..Len(s3Uploads)
  /\ s3Uploads[i].state = "uploading"
  /\ s3Uploads' = [s3Uploads EXCEPT ![i].state = "done"]
  /\ UNCHANGED << ciVars, message, showEmojiPicker, mentionVars, uploadVars,
                  envVars, sendVars, histVars, validated, resolved, onProgress, urlCalls, caret, profile >>

\* ------------------------------------------------------------- mentions
\* the two AI personas getFilteredParticipants puts before the participants
wayneAI ==
  [name  |-> << "w", "a", "y", "n", "e", "A", "I" >>,
   email |-> << "a", "i", "@", "w", "a", "y", "n", "e", ".", "a", "i" >>]
consultingAI ==
  [name  |-> << "c", "o", "n", "s", "u", "l", "t", "i", "n", "g", "A", "I" >>,
   email |-> << "a", "i", "@", "c", "o", "n", "s", "u", "l", "t", "i", "n", "g",
                ".", "a", "i" >>]

\* the human participant of the room
WayneKim ==
  [name  |-> << "W", "a", "y", "n", "e", " ", "K", "i", "m" >>,
   email |-> << "k", "i", "m", "@", "k", ".", "i", "o" >>]

\* the room prop: its participants, or none loaded (room?.participants undefined)
ChatRoom == [loaded |-> TRUE, participants |-> << WayneKim >>]
RoomWithoutParticipants == [loaded |-> FALSE, participants |-> <<>>]

\* getFilteredParticipants(room), reading the mentionFilter state
getFilteredParticipants(r) ==
  IF ~r.loaded THEN <<>>
  ELSE SelectSeq(<< wayneAI, consultingAI >> \o r.participants,
                 LAMBDA user : \/ includes(toLowerCase(user.name), mentionFilter)
                               \/ includes(toLowerCase(user.email), mentionFilter))

\* ChatInput.handleMentionSelect: the draft it stores.  The last line must
\* match /@(\w*)$/; the line is cut at its last '@' and '@' + name + ' ' is
\* appended; the lines before are kept.
mentionSelected(msg, name) ==
  LET line == currentLine(msg)
      at   == lastIndexOf(line, "@")
  IN IF ~InputTrigger(msg).active THEN msg
     ELSE SubSeq(msg, 1, Len(msg) - Len(line)) \o SubSeq(line, 1, at - 1)
          \o << "@" >> \o name \o << " " >>

\* insertMention putting the caret before the inserted space
mentionInsertedCaretBeforeSpace(msg, cursorPosition, name) ==
  LET at == lastIndexOf(SubSeq(msg, 1, cursorPosition), "@")
  IN IF at = 0 THEN [message |-> msg, caret |-> cursorPosition, found |-> FALSE]
     ELSE [message |-> SubSeq(msg, 1, at - 1) \o << "@" >> \o name \o << " " >>
                       \o SubSeq(msg, cursorPosition + 1, Len(msg)),
           caret   |-> (at - 1) + Len(name) + 1,
           found   |-> TRUE]

\* useMessageHandling.insertMention: the draft it stores and the caret it
\* sets.  at is 1-based, atSymbolIndex = at - 1; newPosition =
\* atSymbolIndex + user.name.length + 2
mentionInserted(msg, cursorPosition, name) ==
  LET at == lastIndexOf(SubSeq(msg, 1, cursorPosition), "@")
  IN IF at = 0 THEN [message |-> msg, caret |-> cursorPosition, found |-> FALSE]
     ELSE [message |-> SubSeq(msg, 1, at - 1) \o << "@" >> \o name \o << " " >>
                       \o SubSeq(msg, cursorPosition + 1, Len(msg)),
           caret   |-> (at - 1) + Len(name) + 2,
           found   |-> TRUE]

\* ChatInput.handleMentionSelect(user): a click on a row of MentionDropdown,
\* or Tab / Enter in handleKeyDown.  The caret goes to newMessage.length.
handleMentionSelect(user) ==
  /\ mounted
  /\ IF InputTrigger(message).active
     THEN /\ message' = mentionSelected(message, user.name)
          /\ showMentionList' = FALSE
          /\ caret' = Len(message')
     ELSE UNCHANGED << message, showMentionList, caret >>
  /\ UNCHANGED << ciVars, showEmojiPicker, mentionFilter, mentionIndex, uploadVars,
                  envVars, sendVars, histVars, svcVars >>

\* MentionDropdown.onSelect: a row of the shown list is clicked
onSelect(index) ==
  /\ showMentionList
  /\ index \in 1..Len(getFilteredParticipants(ChatRoom))
  /\ handleMentionSelect(getFilteredParticipants(ChatRoom)[index])

\* useMessageHandling.insertMention(messageInputRef, user), for a candidate
\* of the shown list
insertMention(user) ==
  /\ mounted
  /\ showMentionList
  /\ LET r == mentionInserted(message, caret, user.name)
     IN IF r.found
        THEN /\ message' = r.message
             /\ showMentionList' = FALSE
             /\ caret' = r.caret
        ELSE UNCHANGED << message, showMentionList, caret >>
  /\ UNCHANGED << ciVars, showEmojiPicker, mentionFilter, mentionIndex, uploadVars,
                  envVars, sendVars, histVars, svcVars >>

\* the user clicks elsewhere in the draft while the mention list is shown:
\* the caret moves and no handler of the component runs
setSelectionRange(pos) ==
  /\ mounted
  /\ showMentionList
  /\ pos \in 0..Len(message)
  /\ pos # caret
  /\ caret' = pos
  /\ UNCHANGED << ciVars, message, showEmojiPicker, mentionVars, uploadVars,
                  envVars, sendVars, histVars, svcVars >>

\* MentionDropdown.onMouseEnter = (index) => setMentionIndex(index)
onMouseEnter(index) ==
  /\ mounted
  /\ showMentionList
  /\ index \in 0..(Len(getFilteredParticipants(ChatRoom)) - 1)
  /\ index # mentionIndex
  /\ mentionIndex' = index
  /\ UNCHANGED << ciVars, message, showEmojiPicker, showMentionList, mentionFilter,
                  uploadVars, envVars, sendVars, histVars, svcVars, caret >>

\* ChatInput.handleKeyDown(e) for an unshifted key
handleKeyDown(key) ==
  LET participants      == getFilteredParticipants(ChatRoom)
      participantsCount == Len(participants)
  IN
  /\ mounted
  /\ IF showMentionList
     THEN CASE key = "ArrowDown" ->
                 /\ mentionIndex' = IF mentionIndex < participantsCount - 1
                                    THEN mentionIndex + 1 ELSE 0
                 /\ UNCHANGED << ciVars, message, showEmojiPicker, showMentionList,
                                 mentionFilter, uploadVars, envVars, sendVars,
                                 histVars, svcVars, caret >>
            [] key = "ArrowUp" ->
                 /\ mentionIndex' = IF mentionIndex > 0
                                    THEN mentionIndex - 1 ELSE participantsCount - 1
                 /\ UNCHANGED << ciVars, message, showEmojiPicker, showMentionList,
                                 mentionFilter, uploadVars, envVars, sendVars,
                                 histVars, svcVars, caret >>
            [] key \in {"Tab", "Enter"} ->
                 IF participantsCount > 0 /\ mentionIndex \in 0..(participantsCount - 1)
                 THEN handleMentionSelect(participants[mentionIndex + 1])
                 ELSE UNCHANGED vars
            [] key = "Escape" ->
                 /\ showMentionList' = FALSE
                 /\ UNCHANGED << ciVars, message, showEmojiPicker, mentionFilter,
                                 mentionIndex, uploadVars, envVars, sendVars,
                                 histVars, svcVars, caret >>
            [] OTHER -> UNCHANGED vars
     ELSE CASE key = "Enter" ->
                 IF trim(message) # <<>> \/ Len(files) > 0
                 THEN handleSubmit
                 ELSE UNCHANGED vars
            [] key = "Escape" /\ showEmojiPicker -> handleClickOutside
            [] OTHER -> UNCHANGED vars

\* --------------------------------------------- chat file upload and path
\* s.split(sep).pop()
splitPop(s, sep) == SubSeq(s, lastIndexOf(s, sep) + 1, Len(s))

\* S3Service.generateUniqueFileName: `${timestamp}-${randomString}.${extension}`,
\* stamp standing for the timestamp and the random string
generateUniqueFileName(originalName, stamp) ==
  stamp \o << "." >> \o splitPop(originalName, ".")

\* S3Service.uploadFile: const key = `${folder}/${fileName}`
storageKey(folder, fileName) == folder \o << "/" >> \o fileName

\* data.Location of the stored object: the bucket URL, '/', the key (the
\* format extractKeyFromUrl strips, lines 189-192)
Location(key) == << bucketUrl, "/" >> \o key

\* fileService.uploadChatFile(file, chatRoomId): folder `chat-files/${chatRoomId}`;
\* the response it resolves with, and the key the object was stored under
uploadChatFile(originalName, chatRoomId, stamp) ==
  LET key == storageKey(ChatFiles \o << "/" >> \o chatRoomId,
                        generateUniqueFileName(originalName, stamp))
  IN [success |-> TRUE, url |-> Location(key), originalName |-> originalName,
      chatRoomId |-> chatRoomId, isChatFile |-> TRUE, storedAs |-> key]

\* the file name taken as the whole URL
fileNameOfWholeUrl(url) == url

\* handleMessageSubmit: uploadResponse.url?.split('/').pop() || 'unknown'
fileNameOf(url) ==
  IF splitPop(url, "/") = <<>> THEN << "unknown" >> ELSE splitPop(url, "/")

\* handleMessageSubmit: the fileData built from a response without data.file
\* (lines 458-486), as _buildFilePath reads it: filename, no folder
fileDataOf(response) == ObjectInfo(<<>>, fileNameOf(response.url))

\* a chat file is uploaded to the room and the fileData derived from the
\* response is resolved with the room id
uploadAndResolve(originalName, chatRoomId, stamp) ==
  LET response == uploadChatFile(originalName, chatRoomId, stamp) IN
  /\ Len(resolved) < MaxResolutions
  /\ resolved' = Append(resolved,
                        [fileInfo |-> fileDataOf(response), roomId |-> chatRoomId,
                         path |-> _buildFilePath(fileDataOf(response), chatRoomId),
                         key |-> response.storedAs])
  /\ UNCHANGED << ciVars, message, showEmojiPicker, mentionVars, uploadVars,
                  envVars, sendVars, histVars, validated, s3Uploads, onProgress, urlCalls, caret, profile >>

\* ------------------------------------------------------- profile image
\* file.type.startsWith('image/')
isImageType(type) == type \in { "image/png", "image/svg+xml" }

\* fileService.createPreviewUrl(file) returns a blob URL (not null)
createsPreviewUrl(file) == file # NoFile /\ isImageType(file.type)

\* a blob URL is allocated by the named owner: URL.createObjectURL
Allocated(handles, owner) == Append(handles, [by |-> owner, state |-> "live"])

\* URL.revokeObjectURL on handle h
Released(handles, h) == [handles EXCEPT ![h].state = "released"]

\* ProfileImageUpload.handleFileSelect(event).  fileService has no
\* uploadProfileImage, so the call at line 57 raises a TypeError inside the
\* try block and the handler continues in catch and finally.
handleFileSelect(file) ==
  LET h == Len(profile.handles) + 1 IN
  /\ profile.calls < MaxProfileCalls
  /\ file # NoFile
  /\ IF validateFile(file) = "ok" /\ isImageType(file.type)
     THEN \* localPreviewUrl = handle h; catch: createPreviewUrl again (h + 1),
          \* revokePreviewUrl(h + 1); setPreviewUrl(currentImageUrl)
          profile' = [profile EXCEPT
            !.handles = Released(Allocated(Allocated(@, "ProfileImageUpload"),
                                           "ProfileImageUpload"), h + 1),
            !.previewUrl = OriginalImage, !.error = TRUE, !.uploading = FALSE,
            !.calls = @ + 1]
     ELSE \* validateFile or the image test threw: catch and finally
          profile' = [profile EXCEPT
            !.handles = IF createsPreviewUrl(file)
                        THEN Released(Allocated(@, "ProfileImageUpload"), h)
                        ELSE @,
            !.previewUrl = OriginalImage, !.error = TRUE, !.uploading = FALSE,
            !.calls = @ + 1]
  /\ UNCHANGED << ciVars, message, showEmojiPicker, mentionVars, uploadVars,
                  envVars, sendVars, histVars, validated, resolved, s3Uploads,
                  onProgress, urlCalls, caret >>

\* the profile page's handleFileUpload(event) up to await fileService.uploadFile
\* (or to its end when validation fails).  resizeImage allocates a blob URL
\* for img.src (line 107); tempUrl is the preview of the resized file.
handleFileUpload(file) ==
  LET h == Len(profile.handles) + 1 IN
  /\ profile.calls < MaxProfileCalls
  /\ profile.tempUrl = 0
  /\ file # NoFile
  /\ IF validateFile(file) = "ok" /\ isImageType(file.type)
     THEN profile' = [profile EXCEPT
            !.handles = Allocated(Allocated(@, "resizeImage"), "handleFileUpload"),
            !.tempUrl = h + 1, !.profileImage = h + 1,
            !.isImageUploading = TRUE, !.pageError = FALSE, !.calls = @ + 1]
     ELSE profile' = [profile EXCEPT
            !.profileImage = OriginalImage, !.pageError = TRUE,
            !.isImageUploading = FALSE, !.calls = @ + 1]
  /\ UNCHANGED << ciVars, message, showEmojiPicker, mentionVars, uploadVars,
                  envVars, sendVars, histVars, validated, resolved, s3Uploads,
                  onProgress, urlCalls, caret >>

\* fileService.uploadFile of the profile page settles: the rest of
\* handleFileUpload (lines 153-219)
profileUploadSettles(ok) ==
  /\ profile.tempUrl # 0
  /\ IF ok
     THEN profile' = [profile EXCEPT
            !.profileImage = UploadedImage,
            !.handles = Released(@, profile.tempUrl),
            !.tempUrl = 0, !.isImageUploading = FALSE]
     ELSE profile' = [profile EXCEPT
            !.profileImage = OriginalImage, !.pageError = TRUE,
            !.tempUrl = 0, !.isImageUploading = FALSE]
  /\ UNCHANGED << ciVars, message, showEmojiPicker, mentionVars, uploadVars,
                  envVars, sendVars, histVars, validated, resolved, s3Uploads,
                  onProgress, urlCalls, caret >>

\* ------------------------------------------- ChatInput: toolbar edits
\* String.prototype.indexOf, 1-based; 0 when absent
indexOf(s, c) ==
  LET I == { i \in 1..Len(s) : s[i] = c }
  IN IF I = {} THEN 0 ELSE CHOOSE i \in I : \A j \in I : i <= j

\* handleMarkdownAction with a collapsed selection (selectionStart =
\* selectionEnd = the caret, selectedText = ''): the text and caret it stores
markdownApplied(msg, start, markdown) ==
  LET before == SubSeq(msg, 1, start)
      after  == SubSeq(msg, start + 1, Len(msg))
  IN IF indexOf(markdown, "\n") # 0
     THEN [message |-> before \o markdown \o after,
           caret   |-> start + indexOf(markdown, "\n")]
     ELSE IF markdown[Len(markdown)] = " "
     THEN [message |-> before \o markdown \o after,
           caret   |-> start + Len(markdown)]
     ELSE [message |-> before \o markdown \o markdown \o after,
           caret   |-> start + Len(markdown)]

\* ChatInput.handleMarkdownAction(markdown), a toolbar button
handleMarkdownAction(markdown) ==
  /\ mounted
  /\ Len(message) < MaxEdits
  /\ message' = markdownApplied(message, caret, markdown).message
  /\ caret' = markdownApplied(message, caret, markdown).caret
  /\ UNCHANGED << ciVars, showEmojiPicker, mentionVars, uploadVars, envVars,
                  sendVars, histVars, svcVars >>

\* ChatInput.handleEmojiSelect(emoji), a click in the shown picker;
\* cursorPosition = selectionStart || message.length
handleEmojiSelect(emoji) ==
  LET cursorPosition == IF caret = 0 THEN Len(message) ELSE caret IN
  /\ mounted
  /\ showEmojiPicker
  /\ Len(message) < MaxEdits
  /\ message' = SubSeq(message, 1, cursorPosition) \o << emoji >>
                 \o SubSeq(message, cursorPosition + 1, Len(message))
  /\ showEmojiPicker' = FALSE
  /\ caret' = cursorPosition + 1
  /\ revokeCalls' = EffectCleanup(TRUE, files, FALSE, showEmojiPicker, showEmojiPicker',
                                  revokeCalls)
  /\ UNCHANGED << files, ciUploadError, mounted, created, mentionVars, uploadVars,
                  envVars, sendVars, histVars, svcVars >>

\* ------------------------------------------------------- specifications
\* Attachment lifecycle in ChatInput: selection, removal, submit, the effect
\* cleanup, unmount, and the upload's completion.
AttachFiles == { [size |-> MaxFileSize, type |-> "image/png"],
                 [size |-> MaxFileSize + 1, type |-> "image/png"],
                 [size |-> MaxFileSize, type |-> "text/plain"],
                 NoFile }

Next ==
  \/ \E file \in AttachFiles : handleFileValidationAndPreview(file)
  \/ \E a \in 1..MaxFiles : handleFileRemove(a)
  \/ onRetry
  \/ toggleEmojiPicker
  \/ handleClickOutside
  \/ Unmount
  \/ handleSubmit
  \/ \E sid \in 1..MaxSends : UploadResolve(sid)
  \/ \E sid \in 1..MaxSends : UploadReject(sid, {})
  \/ \E a \in 1..MaxFiles : setFilePreview(a)

Spec == Init /\ [][Next]_vars

\* The send pipeline: drafts of text and one attachment through
\* ChatInput.handleSubmit and handleMessageSubmit, under every state of the
\* transport, the session and the room.
SendFiles == { [size |-> MaxFileSize, type |-> "image/png"] }

InitSend == InitWith({"connected", "disconnected", "null"}, {User, NoUser},
                     {Room, NoRoom})

NextSend ==
  \/ \E file \in SendFiles : handleFileValidationAndPreview(file)
  \/ \E value \in Drafts : handleInputChange(value)
  \/ handleSubmit
  \/ \E sid \in 1..MaxSends, p \in ProgressValues : UploadProgress(sid, p)
  \/ \E sid \in 1..MaxSends : UploadResolve(sid)
  \/ \E sid \in 1..MaxSends, err \in ErrorMessages : UploadReject(sid, err)
  \/ removeFilePreview
  \/ \E s \in {"connected", "disconnected", "null"} : SocketChange(s)

SpecSend == InitSend /\ [][NextSend]_vars

\* Composing and sending drafts (text, attachment, attachment preview) while
\* the transport stays connected for a signed-in user in a room.
NextCompose ==
  \/ \E file \in SendFiles : handleFileValidationAndPreview(file)
  \/ \E value \in Drafts : handleInputChange(value)
  \/ handleSubmit
  \/ \E sid \in 1..MaxSends, p \in ProgressValues : UploadProgress(sid, p)
  \/ \E sid \in 1..MaxSends : UploadResolve(sid)
  \/ \E sid \in 1..MaxSends : UploadReject(sid, {})
  \/ removeFilePreview
  \/ \E a \in 1..MaxFiles : setFilePreview(a)
  \/ toggleEmojiPicker

SpecCompose == Init /\ [][NextCompose]_vars

\* History fetch: handleLoadMore tickets, their timers and socket listeners.
NextHistory ==
  \/ \E answer \in EventKinds : handleLoadMore(answer)
  \/ \E t \in 1..MaxTickets : Timeout(t)
  \/ \E r \in net : Deliver(r)
  \/ \E s \in {"connected", "disconnected"} : SocketChange(s)
  \/ Render

SpecHistory == Init /\ [][NextHistory]_vars

\* Text drafts: typed and submitted through ChatInput, or handed to
\* handleMessageSubmit as they are, under every state of the transport, the
\* session and the room.
NextText ==
  \/ \E value \in Drafts : handleInputChange(value)
  \/ handleSubmit
  \/ \E content \in Drafts : handleMessageSubmitText(content)
  \/ \E s \in {"connected", "disconnected", "null"} : SocketChange(s)

SpecText == InitSend /\ [][NextText]_vars

\* Mentions: the draft is typed, the caret is moved, the mention list is
\* navigated with the keyboard and the mouse, a candidate is selected, and
\* the draft is sent with the button or with Enter, the transport connected
\* or not.
MentionDrafts ==
  { <<>>,
    << "@", "w" >>,
    << "@", "W" >>,
    << "@", "w", "a", "y" >>,
    << "@", "a" >>,
    << "@", "z" >>,
    << "@", "w", "-" >>,
    << "a", "\n", "@", "w" >> }

\* the longest list getFilteredParticipants can return for the room
RosterSize == 2 + Len(ChatRoom.participants)

MentionKeys == { "ArrowDown", "ArrowUp", "Tab", "Enter", "Escape" }

NextMention ==
  \/ \E value \in MentionDrafts : handleInputChange(value)
  \/ \E pos \in 0..MaxCaret : setSelectionRange(pos)
  \/ \E key \in MentionKeys : handleKeyDown(key)
  \/ \E index \in 1..RosterSize : onSelect(index)
  \/ \E user \in Range(getFilteredParticipants(ChatRoom)) : insertMention(user)
  \/ \E index \in 0..(RosterSize - 1) : onMouseEnter(index)
  \/ handleSubmit

\* the transport is connected or not when the page is used
InitMention == InitWith({"connected", "disconnected"}, {User}, {Room})

SpecMention == InitMention /\ [][NextMention]_vars

\* Editing the draft: typing, the emoji picker, the markdown toolbar, a
\* mention picked from the list, and the send button.
EditDrafts == { <<>>, << "@", "w" >>, << "a", " " >> }
Emojis == { "emoji" }
Markdowns == { << "*", "*" >>, << "#", " " >>, << "~", "\n", "\n", "~" >> }

NextEdit ==
  \/ \E value \in EditDrafts : handleInputChange(value)
  \/ toggleEmojiPicker
  \/ \E emoji \in Emojis : handleEmojiSelect(emoji)
  \/ \E markdown \in Markdowns : handleMarkdownAction(markdown)
  \/ \E index \in 1..RosterSize : onSelect(index)
  \/ handleSubmit

SpecEdit == Init /\ [][NextEdit]_vars

\* Chat files of every kind of name uploaded to a room and resolved again.
UploadNames ==
  { << "a", ".", "p", "n", "g" >>, << "a", ".", "b", ".", "p", "n", "g" >>,
    << "R", "E", "A", "D" >>, << "a", "." >>, << "a", " ", "b", ".", "p", "d", "f" >> }
UploadRooms == { << "4", "2" >>, << "7" >> }
Stamps == { << "1", "-", "x" >>, << "2", "-", "y" >> }

NextRoundTrip ==
  \E originalName \in UploadNames, chatRoomId \in UploadRooms, stamp \in Stamps :
     uploadAndResolve(originalName, chatRoomId, stamp)

SpecRoundTrip == Init /\ [][NextRoundTrip]_vars

\* The profile image: files selected in ProfileImageUpload and on the
\* profile page, and the page's upload settling.
ProfileFiles == { [size |-> MaxFileSize, type |-> "image/png"],
                  [size |-> MaxFileSize + 1, type |-> "image/png"],
                  [size |-> MaxFileSize, type |-> "image/svg+xml"],
                  [size |-> MaxFileSize, type |-> "application/pdf"] }

NextProfile ==
  \/ \E file \in ProfileFiles : handleFileSelect(file)
  \/ \E file \in ProfileFiles : handleFileUpload(file)
  \/ \E ok \in BOOLEAN : profileUploadSettles(ok)

SpecProfile == Init /\ [][NextProfile]_vars

\* the MIME types listed as accepted: image (jpeg, png, gif, webp), video (mp4,
\* webm, avi, mov), audio (mp3, wav, aac, ogg), document (pdf, msword, docx)
ListedTypes ==
  { "image/jpeg", "image/png", "image/gif", "image/webp",
    "video/mp4", "video/webm", "video/avi", "video/mov",
    "audio/mp3", "audio/wav", "audio/aac", "audio/ogg",
    "application/pdf", "application/msword",
    "application/vnd.openxmlformats-officedocument.wordprocessingml.document" }

\* FileService.validateFile on files of every size class and type.
ValidateSizes == { 0, MaxFileSize, MaxFileSize + 1 }
ValidateTypes ==
  ListedTypes \cup { "image/jpg", "text/plain", "image/svg+xml", "video/quicktime", "" }
ValidateFiles == [size : ValidateSizes, type : ValidateTypes] \cup {NoFile}

NextValidate == \E file \in ValidateFiles : validateFileCall(file)

SpecValidate == Init /\ [][NextValidate]_vars

\* FileService._buildFilePath on every representation of a file.
PathNames   == { <<>>, << "x" >>, << "d", "/", "x" >> }
PathFolders == { <<>>, << "p" >> }
PathRooms   == { <<>>, << "4", "2" >> }
PathInfos ==
  { ObjectInfo(folder, name) : folder \in PathFolders, name \in PathNames }
    \cup { StringInfo(name) : name \in PathNames } \cup { NullInfo }

NextPath ==
  \/ \E fileInfo \in PathInfos, room \in PathRooms : buildFilePathCall(fileInfo, room)
  \/ \E i \in 1..MaxResolutions : buildFilePathAgain(i)

SpecPath == Init /\ [][NextPath]_vars

\* FileService URL builders on every kind of descriptor, session and option.
UrlInfos ==
  { NullInfo, ObjectInfo(<< "p" >>, <<>>),
    StringInfo(<< "x", ".png" >>), StringInfo(<< "x", ".pdf" >>),
    StringInfo(<< "x", ".png", ".pdf" >>), ObjectInfo(<<>>, << "x", ".PNG" >>) }
UrlRooms == { <<>>, << "4", "2" >> }
Sessions ==
  { NoSession, [token |-> "t1", sessionId |-> "s1"],
    [token |-> "t2", sessionId |-> "s2"], [token |-> "t1", sessionId |-> ""] }

getFileUrlCall(fileInfo, download, includeAuth, room, user) ==
  UrlCall("getFileUrl", fileInfo, UrlOptions(download, includeAuth, FALSE, FALSE),
          room, user, FALSE)

getDownloadUrlCall(fileInfo, room, user) ==
  UrlCall("getDownloadUrl", fileInfo, UrlOptions(TRUE, TRUE, TRUE, FALSE),
          room, user, FALSE)

getPreviewUrlCall(fileInfo, room, user) ==
  UrlCall("getPreviewUrl", fileInfo, UrlOptions(FALSE, TRUE, FALSE, FALSE),
          room, user, FALSE)

getThumbnailUrlCall(fileInfo, preview, includeAuth, room, user, cloudFront) ==
  UrlCall("getThumbnailUrl", fileInfo, UrlOptions(FALSE, includeAuth, FALSE, preview),
          room, user, cloudFront)

NextUrl ==
  \/ \E fileInfo \in UrlInfos, room \in UrlRooms, user \in Sessions,
        download \in BOOLEAN, includeAuth \in BOOLEAN :
        getFileUrlCall(fileInfo, download, includeAuth, room, user)
  \/ \E fileInfo \in UrlInfos, room \in UrlRooms, user \in Sessions :
        getDownloadUrlCall(fileInfo, room, user)
  \/ \E fileInfo \in UrlInfos, room \in UrlRooms, user \in Sessions :
        getPreviewUrlCall(fileInfo, room, user)
  \/ \E fileInfo \in UrlInfos, room \in UrlRooms, user \in Sessions,
        preview \in BOOLEAN, includeAuth \in BOOLEAN, cloudFront \in BOOLEAN :
        getThumbnailUrlCall(fileInfo, preview, includeAuth, room, user, cloudFront)

SpecUrl == Init /\ [][NextUrl]_vars

\* S3Service.uploadMultipleFiles: concurrent uploads and their progress events.
NextProgress ==
  \/ \E n \in 1..MaxUploadFiles : uploadMultipleFiles(n)
  \/ \E i \in 1..MaxUploadFiles, loaded \in 1..ProgressTotal : httpUploadProgress(i, loaded)
  \/ \E i \in 1..MaxUploadFiles : uploadSend(i)

SpecProgress == Init /\ [][NextProgress]_vars

\* ------------------------------------------------------------ properties
Tracked == Range(files)
SendIds == 1..Len(sends)
Settled(sid) == sends[sid].outcome \in {"threw", "session-expired", "failed"}
EmittedFor(sid) == { i \in 1..Len(emitted) : emitted[i].sid = sid }

\* C1: the draft tracks at most one attachment after any sequence of
\* selections, removals and submits (a new selection replaces the tracked one).
C1_AtMostOneAttachment == Len(files) <= 1

\* C2: while ChatInput is mounted, the blob handle of every attachment that
\* is still tracked in files has not been revoked.
C2_TrackedHandleIsLive ==
  mounted => \A a \in Tracked : revokeCalls[a] = "none"

\* C3: no blob handle is revoked more than once, whatever sequence of
\* removals, submits, re-renders and unmounts the attachment goes through.
C3_RevokedAtMostOnce ==
  \A a \in 1..Len(created) : revokeCalls[a] # "twice-or-more"

\* C4: no chatMessage of type file is emitted for an attachment that was
\* removed while its upload was in flight.
C4_RemovedUploadIsDiscarded ==
  \A i \in 1..Len(emitted) :
     emitted[i].type = "file" => emitted[i].att \notin removed

\* C5: a history-fetch ticket that has an outcome keeps it, and an event sent
\* for a ticket that already has its outcome changes neither any ticket nor
\* loadingMessages when it arrives.
C5_LosersHaveNoEffect ==
  [][ /\ \A t \in 1..Len(tickets) :
           tickets[t].outcome # "pending" => tickets'[t] = tickets[t]
      /\ \A r \in net :
           (r \notin net' /\ tickets[r.req].outcome # "pending")
             => (tickets' = tickets /\ loadingMessages' = loadingMessages) ]_vars

\* C6: when the timer of a pending ticket fires the ticket becomes timed-out
\* and loadingMessages false, and a previousMessagesLoaded event that arrives
\* for a timed-out ticket changes neither any ticket nor loadingMessages.
C6_TimedOutIgnoresLateSuccess ==
  [][ /\ \A t \in timers :
           (t \notin timers' /\ listeners' = listeners)
             => (tickets'[t].outcome = "timed-out" /\ ~loadingMessages')
      /\ \A r \in net :
           (r \notin net' /\ r.kind = "previousMessagesLoaded"
              /\ tickets[r.req].outcome = "timed-out")
             => (tickets' = tickets /\ loadingMessages' = loadingMessages) ]_vars

\* C7: a handleMessageSubmit call made while the socket is not connected or
\* there is no current user fails at once: no upload is started, nothing is
\* emitted for it, and the disconnected error is shown.
C7_NotConnectedFailsImmediately ==
  \A sid \in SendIds :
     (~sends[sid].connected \/ ~sends[sid].user)
       => /\ sends[sid].outcome = "not-connected"
          /\ ~sends[sid].uploadStarted
          /\ EmittedFor(sid) = {}
          /\ sends[sid].toasts = << "disconnected" >>

C7_Witness ==
  \E sid \in SendIds :
     sends[sid].type = "file" /\ sends[sid].connected /\ ~sends[sid].user

\* C8: a send that failed with session vocabulary in the error message has
\* called handleSessionError exactly once and shown no error; every other
\* failed send has shown an error message.
C8_FailuresAreClassified ==
  \A sid \in SendIds :
     Settled(sid) =>
        IF SessionVocabulary(sends[sid].err)
        THEN sends[sid].sessionCalls = 1 /\ sends[sid].toasts = <<>>
        ELSE sends[sid].toasts # <<>>

\* C9: a file send that failed after its upload had succeeded has logged the
\* uploaded URL and told the user that the file is stored but the message
\* must be sent again.
C9_UploadedButUnsentIsReported ==
  \A sid \in SendIds :
     (Settled(sid) /\ sends[sid].uploaded)
       => (sends[sid].warned /\ "uploaded-but-not-sent" \in Range(sends[sid].toasts))

\* C10 as stated: whenever a chatMessage is emitted, the draft text is empty,
\* no attachment preview is attached, the message's attachment is untracked
\* with its handle revoked, and upload progress is 0, upload error null and
\* uploading false.
C10_SuccessClearsEverything ==
  [][ Len(emitted') > Len(emitted) =>
        LET m == emitted'[Len(emitted')] IN
        /\ message' = <<>>
        /\ filePreview' = NoPreview
        /\ uploadProgress' = 0 /\ uploadError' = Null /\ ~uploading'
        /\ m.type = "file" => (m.att \notin Range(files') /\ revokeCalls'[m.att] # "none")
    ]_vars

\* C10 amended: every emitted chatMessage leaves the draft text empty; the
\* emit of a file message also leaves no attachment preview, the attachment
\* untracked with its handle revoked, upload progress 0, upload error null
\* and uploading false.  (A text send leaves the upload state as it is.)
C10_FileSuccessClearsUploadState ==
  [][ Len(emitted') > Len(emitted) =>
        LET m == emitted'[Len(emitted')] IN
        /\ message' = <<>>
        /\ m.type = "file" =>
             /\ filePreview' = NoPreview
             /\ uploadProgress' = 0 /\ uploadError' = Null /\ ~uploading'
             /\ m.att \notin Range(files') /\ revokeCalls'[m.att] # "none"
    ]_vars

C10_Witness ==
  \E i \in 1..Len(emitted), j \in 1..Len(emitted) :
     /\ emitted[i].type = "file" /\ emitted[j].type = "text"
     /\ revokeCalls[emitted[i].att] # "none"
     /\ message = <<>> /\ ~uploading /\ uploadProgress = 0

\* C11: when the upload of a submitted attachment fails while ChatInput is
\* mounted, the attachment is still tracked in files and its blob handle has
\* not been revoked, so the send can be retried without a new selection.
C11_FailedUploadKeepsAttachment ==
  [][ \A sid \in SendIds :
        ( /\ mounted
          /\ sends[sid].outcome = "pending"
          /\ sends'[sid].outcome \in {"threw", "session-expired", "failed"}
          /\ ~sends'[sid].uploaded )
        => ( /\ sends[sid].att \in Range(files')
             /\ revokeCalls'[sends[sid].att] = "none" ) ]_vars

\* C12: when handleFileValidationAndPreview is given a file that is too large
\* or of a type outside the allowed lists, the validator's error is stored as
\* ChatInput's uploadError, no blob handle is created for the file, and the
\* tracked attachments and their handles are unchanged.
C12_InvalidFileLeavesNoTrace ==
  [][ \A file \in AttachFiles \ {NoFile} :
        ( /\ \/ file.size > MaxFileSize
             \/ file.type \notin (allowedImageTypes \cup allowedVideoTypes
                                   \cup allowedAudioTypes \cup allowedDocumentTypes)
          /\ handleFileValidationAndPreview(file) )
        => ( /\ ciUploadError' = IF file.size > MaxFileSize THEN "too-large"
                                 ELSE "unsupported"
             /\ files' = files
             /\ created' = created
             /\ revokeCalls' = revokeCalls ) ]_vars

C12_Witness ==
  /\ ciUploadError = "unsupported"
  /\ Len(files) = 1 /\ Len(created) = 1
  /\ revokeCalls[files[1]] = "none"

\* C13: every value passed to the onProgress callback of one upload call is
\* within 0..100 and not smaller than the value passed before it, also for the
\* aggregate of uploadMultipleFiles when the files' progress events interleave.
C13_ProgressIsMonotone ==
  [][ /\ onProgress' \in (0..100) \cup {-1}
      /\ onProgress # -1 => onProgress' >= onProgress ]_vars

\* C14: at-most-once delivery.  No handleSubmit call leads to more than one
\* chatMessage, and no attachment is carried by more than one chatMessage,
\* however submits interleave with uploads and state updates.
C14_AtMostOnceDelivery ==
  /\ \A sid \in SendIds : Cardinality(EmittedFor(sid)) <= 1
  /\ \A i, j \in 1..Len(emitted) :
        (i # j /\ emitted[i].type = "file" /\ emitted[j].type = "file")
          => emitted[i].att # emitted[j].att

C14_Witness ==
  /\ Len(sends) = 2 /\ Len(emitted) = 2
  /\ emitted[1].type = "file" /\ emitted[2].type = "file"
  /\ emitted[1].sid = 2 /\ emitted[2].sid = 1

\* C15: a text send whose content is empty or only whitespace emits nothing,
\* and every emitted chatMessage of type text carries the room id and a
\* non-empty content without leading or trailing whitespace, which is the
\* submitted content with the whitespace at its ends removed.
C15_EmptyDraftIsNeverSent ==
  /\ \A sid \in SendIds :
        (sends[sid].type = "text" /\ Range(sends[sid].content) \subseteq Whitespace)
          => EmittedFor(sid) = {}
  /\ \A i \in 1..Len(emitted) :
        emitted[i].type = "text" =>
          LET m == emitted[i]
              c == sends[m.sid].content
          IN /\ m.room = Room
             /\ m.content # <<>>
             /\ m.content[1] \notin Whitespace
             /\ m.content[Len(m.content)] \notin Whitespace
             /\ \E a, b \in 0..Len(c) :
                   /\ a + b <= Len(c)
                   /\ SubSeq(c, a + 1, Len(c) - b) = m.content
                   /\ \A k \in (1..a) \cup ((Len(c) - b + 1)..Len(c)) :
                         c[k] \in Whitespace

C15_Witness ==
  \E s1, s2 \in SendIds :
     /\ sends[s1].content = << " " >> /\ sends[s1].outcome = "nothing"
     /\ sends[s2].content = << " ", "a" >> /\ sends[s2].outcome = "sent"
     /\ \E i \in EmittedFor(s2) : emitted[i].content = << "a" >>

\* C16: every emitted chatMessage of type file belongs to a send whose upload
\* was started and completed successfully, carries the stored reference of its
\* file as url and the flags alreadyUploaded, s3Uploaded and
\* skipFileValidation; a file send whose upload did not succeed has emitted
\* nothing.
C16_FileMessageAfterUpload ==
  /\ \A i \in 1..Len(emitted) :
        emitted[i].type = "file" =>
          LET m == emitted[i] IN
          /\ sends[m.sid].uploadStarted /\ sends[m.sid].uploaded
          /\ S3validateFile(created[m.att]) = "ok"
          /\ m.url = m.att
          /\ {"alreadyUploaded", "s3Uploaded", "skipFileValidation"} \subseteq m.flags
  /\ \A sid \in SendIds :
        (sends[sid].type = "file" /\ ~sends[sid].uploaded) => EmittedFor(sid) = {}

C16_Witness ==
  \E s1, s2 \in SendIds :
     /\ sends[s1].type = "file" /\ sends[s1].outcome = "sent" /\ EmittedFor(s1) # {}
     /\ sends[s2].type = "file" /\ sends[s2].outcome = "threw" /\ ~sends[s2].uploaded

\* C17: validateFile rejects every file larger than 10 MiB as too large,
\* whatever its MIME type: the single reason of a file that is both oversized
\* and of an unsupported type is too-large.
C17_TooLargeWhateverTheType ==
  \A i \in 1..Len(validated) :
     (validated[i].file # NoFile /\ validated[i].file.size > 10 * 1024 * 1024)
       => validated[i].verdict = "too-large"

C17_Witness ==
  \E i \in 1..Len(validated) :
     /\ validated[i].file.size = 10 * 1024 * 1024 + 1
     /\ validated[i].file.type = "text/plain"
     /\ validated[i].verdict = "too-large"

\* C18 as stated: validateFile accepts a file of at most 10 MiB if and only
\* if its MIME type is one of the listed types, and rejects every other type
\* as unsupported.
C18_AcceptsExactlyListedTypes ==
  \A i \in 1..Len(validated) :
     (validated[i].file # NoFile /\ validated[i].file.size <= 10 * 1024 * 1024)
       => /\ validated[i].verdict = "ok" <=> validated[i].file.type \in ListedTypes
          /\ validated[i].file.type \notin ListedTypes
               => validated[i].verdict = "unsupported"

\* C18 amended: validateFile accepts a file of at most 10 MiB if and only if
\* its MIME type is one of the listed types or image/jpg, and rejects every
\* other type as unsupported.
C18_AcceptsListedTypesAndJpg ==
  \A i \in 1..Len(validated) :
     (validated[i].file # NoFile /\ validated[i].file.size <= 10 * 1024 * 1024)
       => /\ validated[i].verdict = "ok"
               <=> validated[i].file.type \in ListedTypes \cup {"image/jpg"}
          /\ validated[i].file.type \notin ListedTypes \cup {"image/jpg"}
               => validated[i].verdict = "unsupported"

C18_Witness ==
  \E i, j \in 1..Len(validated) :
     /\ validated[i].file = [size |-> 10 * 1024 * 1024, type |-> "image/jpg"]
     /\ validated[i].verdict = "ok"
     /\ validated[j].file = [size |-> 0, type |-> "video/quicktime"]
     /\ validated[j].verdict = "unsupported"

\* C19: _buildFilePath follows the resolution order: an object with folder
\* and filename gives folder/filename whatever the roomId; an object with
\* filename and a roomId gives chat-files/{roomId}/{filename}; an object with
\* filename only gives filename; a string containing '/' is returned
\* unchanged, also with a roomId; a bare string gives
\* chat-files/{roomId}/{string} with a roomId and itself without one.
C19_ResolutionOrder ==
  \A i \in 1..Len(resolved) :
     LET info == resolved[i].fileInfo
         room == resolved[i].roomId
         path == resolved[i].path
         chat == << "c", "h", "a", "t", "-", "f", "i", "l", "e", "s", "/" >>
                   \o room \o << "/" >>
     IN /\ (info.kind = "object" /\ info.filename # <<>>) =>
             /\ info.folder # <<>> => path = info.folder \o << "/" >> \o info.filename
             /\ (info.folder = <<>> /\ room # <<>>) => path = chat \o info.filename
             /\ (info.folder = <<>> /\ room = <<>>) => path = info.filename
        /\ info.kind = "string" =>
             /\ (\E k \in 1..Len(info.str) : info.str[k] = "/") => path = info.str
             /\ ((\A k \in 1..Len(info.str) : info.str[k] # "/") /\ room # <<>>)
                  => path = chat \o info.str
             /\ ((\A k \in 1..Len(info.str) : info.str[k] # "/") /\ room = <<>>)
                  => path = info.str

C19_Witness ==
  \E i, j \in 1..Len(resolved) :
     /\ resolved[i].fileInfo = ObjectInfo(<< "p" >>, << "x" >>)
     /\ resolved[i].roomId = << "4", "2" >>
     /\ resolved[i].path = << "p", "/", "x" >>
     /\ resolved[j].fileInfo = StringInfo(<< "d", "/", "x" >>)
     /\ resolved[j].roomId = << "4", "2" >>
     /\ resolved[j].path = << "d", "/", "x" >>

\* C20: for every name f and roomId r, _buildFilePath({filename: f}, r) and
\* _buildFilePath(f, r) are the same path, also when f contains a '/'; and a
\* resolved path resolved again with the same roomId is returned unchanged.
C20_SamePathForEveryRepresentation ==
  \A i, j \in 1..Len(resolved) :
     /\ ( /\ resolved[i].fileInfo.kind = "object"
          /\ resolved[i].fileInfo.folder = <<>>
          /\ resolved[i].fileInfo.filename # <<>>
          /\ resolved[j].fileInfo.kind = "string"
          /\ resolved[j].fileInfo.str = resolved[i].fileInfo.filename
          /\ resolved[j].roomId = resolved[i].roomId )
        => resolved[j].path = resolved[i].path
     /\ ( /\ resolved[i].path # <<>>
          /\ resolved[j].fileInfo.kind = "string"
          /\ resolved[j].fileInfo.str = resolved[i].path
          /\ resolved[j].roomId = resolved[i].roomId )
        => resolved[j].path = resolved[i].path

\* C21: for a descriptor that cannot be resolved (null or another value that
\* is neither object nor string, an object without filename) _buildFilePath
\* gives the empty string, and getFileUrl, getPreviewUrl, getDownloadUrl and
\* getThumbnailUrl return the empty string.
C21_UnresolvableGivesEmptyUrl ==
  \A i \in 1..Len(urlCalls) :
     LET info == urlCalls[i].fileInfo IN
     (info.kind = "null" \/ (info.kind = "object" /\ info.filename = <<>>))
       => /\ _buildFilePath(info, urlCalls[i].roomId) = <<>>
          /\ urlCalls[i].url = <<>>

C21_Witness ==
  \E i \in 1..Len(urlCalls) :
     /\ urlCalls[i].op = "getThumbnailUrl"
     /\ urlCalls[i].fileInfo = ObjectInfo(<< "p" >>, <<>>)
     /\ urlCalls[i].roomId = << "4", "2" >>
     /\ urlCalls[i].user.token = "t1"
     /\ urlCalls[i].url = <<>>

\* C22: every URL returned by getDownloadUrl for a resolvable descriptor
\* carries the download and attachment parameters, with or without a live
\* session, and a URL returned by getPreviewUrl carries neither.
C22_DownloadUrlIsAttachment ==
  \A i \in 1..Len(urlCalls) :
     /\ (urlCalls[i].op = "getDownloadUrl" /\ urlCalls[i].url # <<>>)
          => {"download=true", "attachment=true"} \subseteq Range(urlCalls[i].url)
     /\ urlCalls[i].op = "getPreviewUrl"
          => Range(urlCalls[i].url) \cap {"download=true", "attachment=true"} = {}

C24_ResizeIffImageExtension ==
  \A i \in 1..Len(urlCalls) :
     LET c == urlCalls[i]
         path == _buildFilePath(c.fileInfo, c.roomId)
         extension == IF path[Len(path)] = ".PNG" THEN ".png" ELSE path[Len(path)]
         image == extension \in { ".jpg", ".jpeg", ".png", ".gif", ".webp" }
     IN (c.op = "getThumbnailUrl" /\ c.url # <<>>) =>
          /\ "/w_150,h_150" \in Range(c.url) <=> image
          /\ ~image => c.url = getFileUrl(c.fileInfo,
                                 UrlOptions(FALSE, c.options.includeAuth, FALSE, FALSE),
                                 c.roomId, c.user)

\* ---------------------------------------------------------------- C25
\* C25: after every input change, the mention list is shown if and only if
\* the text from the start of the current line up to the caret contains an
\* '@' with no space between that '@' and the caret, and the mention filter
\* then equals the text after that '@'; otherwise the list is hidden.
C25_TriggerIsAtWithoutSpace ==
  [][ \A value \in MentionDrafts :
        handleInputChange(value) =>
          LET segment == currentLine(SubSeq(message', 1, caret'))
              at      == lastIndexOf(segment, "@")
              after   == SubSeq(segment, at + 1, Len(segment))
              active  == at # 0 /\ \A i \in 1..Len(after) : after[i] # " "
          IN /\ showMentionList' = active
             /\ active => mentionFilter' = after ]_vars

\* ---------------------------------------------------------------- C26
\* the roster: the two AI personas, then the room's participants
Roster == << wayneAI, consultingAI >> \o ChatRoom.participants

\* String.prototype.startsWith
startsWith(s, prefix) ==
  Len(prefix) <= Len(s) /\ SubSeq(s, 1, Len(prefix)) = prefix

\* C26: getFilteredParticipants returns exactly the roster entries whose name
\* or email starts with the typed prefix, compared case-insensitively, in
\* roster order (AI personas first).
C26_FilterIsCaseInsensitivePrefix ==
  getFilteredParticipants(ChatRoom) =
    SelectSeq(Roster,
              LAMBDA user :
                \/ startsWith(toLowerCase(user.name), toLowerCase(mentionFilter))
                \/ startsWith(toLowerCase(user.email), toLowerCase(mentionFilter)))

\* ---------------------------------------------------------------- C27
\* a candidate is selected: handleMentionSelect (a row clicked, Tab or Enter)
\* or insertMention
Selecting(user) ==
  \/ showMentionList /\ handleMentionSelect(user)
  \/ insertMention(user)

\* the '@' of the current line that precedes the caret, 1-based in the draft;
\* 0 when there is none
TriggerAt ==
  LET before == SubSeq(message, 1, caret)
      line   == currentLine(before)
      at     == lastIndexOf(line, "@")
  IN IF at = 0 THEN 0 ELSE Len(before) - Len(line) + at

\* C27: selecting a candidate replaces the span from the trigger '@' through
\* the caret with '@' + name + ' ', leaves the text before the '@' and after
\* the caret unchanged, closes the mention list and puts the caret right
\* after the inserted space; "@way" with "Wayne Kim" selected gives
\* "@Wayne Kim " with the caret at position 12.
C27_SelectionReplacesTriggerSpan ==
  [][ \A user \in Range(Roster) :
        (TriggerAt # 0 /\ Selecting(user)) =>
          /\ message' = SubSeq(message, 1, TriggerAt - 1)
                         \o << "@" >> \o user.name \o << " " >>
                         \o SubSeq(message, caret + 1, Len(message))
          /\ ~showMentionList'
          /\ caret' = Len(SubSeq(message, 1, TriggerAt - 1)) + Len(user.name) + 2
          /\ (message = << "@", "w", "a", "y" >> /\ caret = 4 /\ user = WayneKim)
               => /\ message' = << "@" >> \o WayneKim.name \o << " " >>
                  /\ caret' = 12 ]_vars

C29_IndexStaysWithinList ==
  [][ LET n == Len(getFilteredParticipants(ChatRoom))
      IN /\ (showMentionList /\ handleKeyDown("ArrowDown")) =>
              mentionIndex' = IF n = 0 THEN mentionIndex
                              ELSE (mentionIndex + 1) % n
         /\ (showMentionList /\ handleKeyDown("ArrowUp")) =>
              mentionIndex' = IF n = 0 THEN mentionIndex
                              ELSE (mentionIndex + n - 1) % n
         /\ showMentionList' =>
              LET m == Len(getFilteredParticipants(ChatRoom)')
              IN IF m = 0 THEN mentionIndex' = 0
                 ELSE mentionIndex' \in 0..(m - 1) ]_vars

\* ---------------------------------------------------------------- C30
\* the draft ends with '@' + name + ' '
EndsWithMention(msg, name) ==
  LET mention == << "@" >> \o name \o << " " >>
  IN /\ Len(msg) >= Len(mention)
     /\ SubSeq(msg, Len(msg) - Len(mention) + 1, Len(msg)) = mention

\* whenever the list is shown with candidates, Tab or Enter has a mention to
\* commit: the handler they run would store a draft ending with the
\* highlighted candidate
CommitChangesDraft ==
  LET participants == getFilteredParticipants(ChatRoom)
      n            == Len(participants)
  IN (showMentionList /\ n > 0) =>
       /\ mentionIndex \in 0..(n - 1)
       /\ EndsWithMention(mentionSelected(message, participants[mentionIndex + 1].name),
                          participants[mentionIndex + 1].name)

\* C30: while the mention list is shown, Tab or Enter commits the highlighted
\* candidate when the filtered list is non-empty and does nothing when it is
\* empty, and in neither case submits the draft; Escape hides the list and
\* leaves the draft text and the attachments unchanged.
C30_ListKeysCommitOrClose ==
  [][ LET participants == getFilteredParticipants(ChatRoom)
          n            == Len(participants)
      IN /\ \A key \in {"Tab", "Enter"} :
              (showMentionList /\ handleKeyDown(key)) =>
                /\ sends' = sends /\ emitted' = emitted
                /\ n = 0 => UNCHANGED vars
                /\ n > 0 => /\ mentionIndex \in 0..(n - 1)
                            /\ EndsWithMention(message',
                                               participants[mentionIndex + 1].name)
                            /\ ~showMentionList'
         /\ (showMentionList /\ handleKeyDown("Escape")) =>
              /\ ~showMentionList'
              /\ message' = message
              /\ files' = files /\ revokeCalls' = revokeCalls
         /\ CommitChangesDraft' ]_vars

\* ---------------------------------------------------------------- C31
\* C31: in every reachable state the shown mention list and its filter
\* correspond to the current draft text: when the list is shown, one of the
\* two detectors run on the text gives an active trigger with that filter.
C31_MentionStateFollowsText ==
  showMentionList =>
    \/ InputTrigger(message).active /\ InputTrigger(message).filter = mentionFilter
    \/ HookTrigger(message).active /\ HookTrigger(message).filter = mentionFilter

\* ---------------------------------------------------------------- C32
\* C32: every handleMessageSubmit call completes without an uncaught
\* exception, and once no upload is awaited any more the uploading flag is
\* false again.
C32_SubmitSettlesAndReenablesInput ==
  /\ \A sid \in SendIds : sends[sid].outcome # "threw"
  /\ (\A sid \in SendIds : ~PendingUpload(sid)) => ~uploading

\* ---------------------------------------------------------------- C33
\* C33: the draft is cleared only by a successful send.  When a submit made
\* through ChatInput.handleSubmit is rejected at the precondition of
\* handleMessageSubmit (not connected, no user, no room id), the draft text
\* and the attachments are the same after the submit; when the upload of a
\* submitted attachment fails, that attachment is still tracked.
C33_RejectedSendKeepsDraft ==
  [][ /\ (handleSubmit /\ sends'[Len(sends')].outcome \in {"not-connected", "no-room"})
           => (message' = message /\ files' = files)
      /\ \A sid \in SendIds, err \in ErrorMessages :
           UploadReject(sid, err) => sends[sid].att \in Range(files') ]_vars

\* ---------------------------------------------------------------- C34
\* C34: every chatMessage was emitted while the transport reported
\* connected; a file message whose upload ended after the socket had
\* disconnected is not emitted.
C34_EmitOnlyWhileConnected ==
  \A i \in 1..Len(emitted) : emitted[i].connected

\* ---------------------------------------------------------------- C35
\* C35: at most one history fetch is outstanding at any time: there are
\* never two tickets whose request was emitted and that are unresolved.
C35_OneFetchOutstanding ==
  Cardinality({ t \in 1..Len(tickets) : tickets[t].outcome = "pending" }) <= 1

\* ---------------------------------------------------------------- C36
\* C36: listeners registered by one history-fetch ticket never affect a
\* later ticket: an event that arrives for a ticket that has already
\* resolved leaves every ticket opened after it as it was, and does not
\* change loadingMessages while such a later ticket is pending.
C36_LateEventSparesLaterTickets ==
  [][ \A r \in net :
        (Deliver(r) /\ tickets[r.req].outcome # "pending") =>
          \A t \in (r.req + 1)..Len(tickets) :
             /\ tickets'[t] = tickets[t]
             /\ tickets[t].outcome = "pending"
                  => loadingMessages' = loadingMessages ]_vars

\* ---------------------------------------------------------------- C37
\* C37: the two validators agree: every file accepted by
\* fileService.validateFile is accepted by s3Service.validateFile, so
\* fileService.uploadFile never fails with an unsupported-type or too-large
\* error for an accepted file, and the storage upload is not started for a
\* file that either validator rejects.
C37_ValidatorsAgree ==
  \A i \in 1..Len(validated) :
     LET file == validated[i].file
     IN /\ validated[i].verdict = "ok" =>
             (S3validateFile(file) = "ok" /\ uploadFile(file) = "ok")
        /\ (file # NoFile /\ uploadFile(file) = "ok") =>
             (validateFile(file) = "ok" /\ S3validateFile(file) = "ok")

\* ---------------------------------------------------------------- C38
\* C38: the two mention-trigger detectors run on an input change compute
\* the same showMentionList value and, when the trigger is active, the same
\* mention filter for the draft text.
C38_DetectorsAgree ==
  /\ HookTrigger(message).active = InputTrigger(message).active
  /\ InputTrigger(message).active =>
       HookTrigger(message).filter = InputTrigger(message).filter

FinishedHandles ==
  { h \in 1..Len(profile.handles) :
      profile.handles[h].by = "ProfileImageUpload" \/ profile.tempUrl = 0 }

\* C40: when a profile image upload call has finished, on the success path
\* and on every failure path, every local preview handle it allocated has been
\* released, the displayed image is not a released blob URL, and the
\* uploading flag is false.
C40_ProfilePreviewIsReleased ==
  /\ \A h \in FinishedHandles : profile.handles[h].state = "released"
  /\ profile.previewUrl > 0 => profile.handles[profile.previewUrl].state = "live"
  /\ profile.profileImage > 0 => profile.handles[profile.profileImage].state = "live"
  /\ ~profile.uploading
  /\ profile.tempUrl = 0 => ~profile.isImageUploading

====
